---------------------------- MODULE Spec2Model ----------------------------
(***************************************************************************)
(* A model of the asynchronous site mirror (src/src/web_scraper.py,        *)
(* src/src/downloader.py, src/src/content_processor.py, src/src/utils).    *)
(*                                                                         *)
(* Strings are sequences of tokens.  Every punctuation character is a      *)
(* token of its own ("/", ".", ":", "?", "#"); a run of letters or digits  *)
(* that no operation of the program splits is one token ("https", "html",  *)
(* "a").  A percent escape is one token ("%2E").  The string operations of *)
(* the program (startswith, endswith, lstrip, rstrip, split, re.sub) are   *)
(* computed on these sequences.                                            *)
(***************************************************************************)
EXTENDS Integers, Sequences, FiniteSets, TLC

(***************************************************************************)
(* String primitives                                                       *)
(***************************************************************************)
Drop(s, n) == SubSeq(s, n + 1, Len(s))

Take(s, n) == SubSeq(s, 1, n)

StartsWith(s, p) == Len(p) <= Len(s) /\ Take(s, Len(p)) = p

EndsWith(s, p) == Len(p) <= Len(s) /\ Drop(s, Len(s) - Len(p)) = p

StartsWithAny(s, ps) == \E p \in ps : StartsWith(s, p)

EndsWithAny(s, ps) == \E p \in ps : EndsWith(s, p)

RECURSIVE LStrip(_, _)
LStrip(s, c) == IF s # <<>> /\ Head(s) = c THEN LStrip(Tail(s), c) ELSE s

RECURSIVE RStrip(_, _)
RStrip(s, c) ==
    IF s # <<>> /\ s[Len(s)] = c THEN RStrip(Take(s, Len(s) - 1), c) ELSE s

\* index of the first token of s that is in cs, or Len(s) + 1
RECURSIVE FindFirst(_, _, _)
FindFirst(s, cs, i) ==
    IF i > Len(s) THEN Len(s) + 1
    ELSE IF s[i] \in cs THEN i ELSE FindFirst(s, cs, i + 1)

\* str.split(c): the pieces between the occurrences of c (empty pieces kept)
\* the part of s before the first token that is in cs, and the part after it
BeforeFirst(s, cs) == Take(s, FindFirst(s, cs, 1) - 1)

AfterFirst(s, cs) == Drop(s, FindFirst(s, cs, 1))

RECURSIVE Split(_, _)
Split(s, c) ==
    IF FindFirst(s, {c}, 1) > Len(s) THEN <<s>>
    ELSE <<BeforeFirst(s, {c})>> \o Split(AfterFirst(s, {c}), c)

\* c.join(pieces)
RECURSIVE Join(_, _)
Join(ps, c) ==
    IF ps = <<>> THEN <<>>
    ELSE IF Len(ps) = 1 THEN ps[1]
    ELSE ps[1] \o <<c>> \o Join(Tail(ps), c)

\* Python's None, where a function returns Optional[str]
None == <<"<None>">>

\* Python truthiness of an Optional[str]: None and '' are false
Truthy(s) == s # None /\ s # <<>>

(***************************************************************************)
(* urllib.parse, as far as the program uses it                             *)
(***************************************************************************)
\* tokens that are not RFC 3986 scheme characters (letters, digits, + - .)
NonSchemeTokens == {"/", ":", "?", "#", "=", "%2E", "%2F", "%20", " "}

\* tokens that do not begin with a letter
NonLetterTokens == {".", "+", "-", "0", "1", "2"}

\* str.lower() of one token
Lower(t) == CASE t = "HTTPS" -> "https" [] t = "HTTP" -> "http" [] OTHER -> t

\* urlsplit's scheme test: the text before the first ':' is a scheme when it
\* begins with a letter and holds scheme characters only
IsSchemeEnd(url, i) ==
    /\ i <= Len(url)
    /\ i > 1
    /\ url[1] \notin NonLetterTokens
    /\ \A k \in 1..(i - 1) : url[k] \notin NonSchemeTokens

\* the index of the ':' that ends the scheme of url, or 0
SchemeEnd(url) ==
    IF IsSchemeEnd(url, FindFirst(url, {":"}, 1)) THEN FindFirst(url, {":"}, 1) ELSE 0

LowerAll(s) == [k \in 1..Len(s) |-> Lower(s[k])]

\* the scheme of url, lower-cased, and what follows its ':'
UrlScheme(url) == LowerAll(Take(url, SchemeEnd(url) - 1))

AfterScheme(url) == Drop(url, SchemeEnd(url))

\* the netloc of what follows the scheme, and what follows the netloc
HasNetloc(r) == StartsWith(r, <<"/", "/">>)

NetlocOf(r) == IF HasNetloc(r) THEN BeforeFirst(Drop(r, 2), {"/", "?", "#"}) ELSE <<>>

AfterNetloc(r) ==
    IF HasNetloc(r)
    THEN Drop(Drop(r, 2), FindFirst(Drop(r, 2), {"/", "?", "#"}, 1) - 1)
    ELSE r

\* the fragment is split off first, then the query
UrlParts(scheme, netloc, r) ==
    [scheme |-> scheme, netloc |-> netloc,
     path |-> BeforeFirst(BeforeFirst(r, {"#"}), {"?"}),
     query |-> AfterFirst(BeforeFirst(r, {"#"}), {"?"}),
     fragment |-> AfterFirst(r, {"#"})]

\* urlparse(url): scheme (lower-cased), netloc, path, query, fragment
urlparse(url) ==
    UrlParts(UrlScheme(url), NetlocOf(AfterScheme(url)), AfterNetloc(AfterScheme(url)))

\* urlunparse
WithNetloc(netloc, path) ==
    IF netloc # <<>>
    THEN <<"/", "/">> \o netloc \o
         (IF path # <<>> /\ Head(path) # "/" THEN <<"/">> ELSE <<>>) \o path
    ELSE path

urlunparse(scheme, netloc, path, query, fragment) ==
    (IF scheme # <<>> THEN scheme \o <<":">> ELSE <<>>)
    \o WithNetloc(netloc, path)
    \o (IF query # <<>> THEN <<"?">> \o query ELSE <<>>)
    \o (IF fragment # <<>> THEN <<"#">> \o fragment ELSE <<>>)

\* the dot-segment resolution loop of urljoin
RECURSIVE ResolveSegments(_, _)
ResolveSegments(segs, acc) ==
    IF segs = <<>> THEN acc
    ELSE IF Head(segs) = <<".", ".">>
         THEN ResolveSegments(Tail(segs),
                              IF acc = <<>> THEN acc ELSE Take(acc, Len(acc) - 1))
    ELSE IF Head(segs) = <<".">> THEN ResolveSegments(Tail(segs), acc)
    ELSE ResolveSegments(Tail(segs), Append(acc, Head(segs)))

\* segments[1:-1] = filter(None, segments[1:-1])
FilterMiddle(segs) ==
    IF Len(segs) <= 2 THEN segs
    ELSE <<segs[1]>> \o SelectSeq(SubSeq(segs, 2, Len(segs) - 1), LAMBDA x : x # <<>>)
         \o <<segs[Len(segs)]>>

\* the schemes of urllib's uses_relative and uses_netloc that occur here
UsesRelative == {<<"http">>, <<"https">>, <<"ftp">>, <<>>}

\* base_parts: the segments of the path of the base without the last one,
\* unless that is empty
BaseParts(bp) == IF bp[Len(bp)] # <<>> THEN Take(bp, Len(bp) - 1) ELSE bp

\* the segments urljoin resolves
JoinSegments(bpath, path) ==
    IF Head(path) = "/" THEN Split(path, "/")
    ELSE FilterMiddle(BaseParts(Split(bpath, "/")) \o Split(path, "/"))

\* the resolved segments; an empty one is added after a final '.' or '..'
Resolved(segs) ==
    IF segs[Len(segs)] \in {<<".">>, <<".", ".">>}
    THEN Append(ResolveSegments(segs, <<>>), <<>>)
    ELSE ResolveSegments(segs, <<>>)

OrSlash(path) == IF path = <<>> THEN <<"/">> ELSE path

\* urljoin once both URLs are parsed and the scheme of the result is known
JoinParsed(b, u, url, scheme) ==
    IF scheme # b.scheme \/ scheme \notin UsesRelative THEN url
    ELSE IF u.netloc # <<>>
    THEN urlunparse(scheme, u.netloc, u.path, u.query, u.fragment)
    ELSE IF u.path = <<>>
    THEN urlunparse(scheme, b.netloc, b.path,
                    IF u.query = <<>> THEN b.query ELSE u.query, u.fragment)
    ELSE urlunparse(scheme, b.netloc,
                    OrSlash(Join(Resolved(JoinSegments(b.path, u.path)), "/")),
                    u.query, u.fragment)

DefaultScheme(b, u) == IF u.scheme = <<>> THEN b.scheme ELSE u.scheme

\* urljoin(base, url)
urljoin(base, url) ==
    IF base = <<>> THEN url
    ELSE IF url = <<>> THEN base
    ELSE JoinParsed(urlparse(base), urlparse(url), url,
                    DefaultScheme(urlparse(base), urlparse(url)))

\* unquote(): percent-decoding, token by token
UnquoteToken(t) ==
    CASE t = "%2E" -> "." [] t = "%2F" -> "/" [] t = "%20" -> " " [] OTHER -> t

unquote(s) == [k \in 1..Len(s) |-> UnquoteToken(s[k])]

(***************************************************************************)
(* src/src/utils/url_helpers.py                                            *)
(***************************************************************************)
is_same_domain(url, base_domain) == NetlocOf(AfterScheme(url)) = base_domain

\* the prefixes convert_to_relative_path rejects
SkipPrefixes ==
    {<<"data", ":">>, <<"blob", ":">>, <<"#">>, <<"mailto", ":">>, <<"tel", ":">>}

convert_to_relative_path(url, base_domain) ==
    IF StartsWithAny(url, SkipPrefixes) THEN None
    ELSE IF UrlScheme(url) \in {<<"http">>, <<"https">>}
         THEN IF ~is_same_domain(url, base_domain) THEN None
              ELSE unquote(LStrip(urlparse(url).path, "/"))
    ELSE unquote(LStrip(url, "/"))

should_process_href(href) ==
    /\ href # <<>>
    /\ ~StartsWithAny(href, SkipPrefixes \cup {<<"javascript", ":">>})

(***************************************************************************)
(* pathlib.Path and os.path, as far as the program uses them.  A Path is   *)
(* [abs, parts]: whether it is absolute and its segments, each a string.   *)
(***************************************************************************)
DotDot == <<".", ".">>

\* the segments pathlib keeps of a string: empty and '.' segments are dropped
PathParts(s) == SelectSeq(Split(s, "/"), LAMBDA x : x # <<>> /\ x # <<".">>)

\* Path(s)
PathOf(s) == [abs |-> StartsWith(s, <<"/">>), parts |-> PathParts(s)]

\* p / s: an absolute right operand replaces the left one
PathJoin(p, s) ==
    IF StartsWith(s, <<"/">>) THEN PathOf(s)
    ELSE [abs |-> p.abs, parts |-> p.parts \o PathParts(s)]

\* p.parent
Parent(p) ==
    [abs |-> p.abs,
     parts |-> IF p.parts = <<>> THEN <<>> ELSE Take(p.parts, Len(p.parts) - 1)]

\* str(p)
PathStr(p) ==
    IF p.abs THEN <<"/">> \o Join(p.parts, "/")
    ELSE IF p.parts = <<>> THEN <<".">> ELSE Join(p.parts, "/")

\* the working directory of the process, one level below the filesystem root
Cwd == <<<<"cwd">>>>

\* os.path.normpath on segments: '..' removes the segment before it and is
\* dropped at the root
RECURSIVE NormParts(_, _)
NormParts(parts, acc) ==
    IF parts = <<>> THEN acc
    ELSE IF Head(parts) = DotDot
         THEN NormParts(Tail(parts),
                        IF acc = <<>> THEN acc ELSE Take(acc, Len(acc) - 1))
    ELSE NormParts(Tail(parts), Append(acc, Head(parts)))

\* os.path.abspath(p), as the segments below the filesystem root; it is also
\* the file the operating system opens for p
AbsPath(p) == NormParts((IF p.abs THEN <<>> ELSE Cwd) \o p.parts, <<>>)

RECURSIVE CommonLen(_, _)
CommonLen(a, b) ==
    IF a = <<>> \/ b = <<>> \/ Head(a) # Head(b) THEN 0
    ELSE 1 + CommonLen(Tail(a), Tail(b))

\* os.path.relpath(target, start).replace(os.sep, '/')
\* one '..' for every segment of start below the common prefix, then the
\* segments of target below it
RelParts(t, st, i) == [k \in 1..(Len(st) - i) |-> DotDot] \o Drop(t, i)

OrDot(rel) == IF rel = <<>> THEN <<".">> ELSE Join(rel, "/")

RelAbs(t, st) == OrDot(RelParts(t, st, CommonLen(t, st)))

relpath(target, start) == RelAbs(AbsPath(target), AbsPath(start))

(***************************************************************************)
(* src/src/utils/path_helpers.py                                           *)
(***************************************************************************)
HtmlExts == {<<".", "html">>, <<".", "htm">>}

\* re.sub(r'\.\./', '', s): one left-to-right pass over s
RECURSIVE RemoveDotDotSlash(_)
RemoveDotDotSlash(s) ==
    IF s = <<>> THEN s
    ELSE IF StartsWith(s, <<".", ".", "/">>) THEN RemoveDotDotSlash(Drop(s, 3))
    ELSE <<Head(s)>> \o RemoveDotDotSlash(Tail(s))

\* a path that does not end in .html or .htm gets /index.html
WithIndex(clean_path) ==
    IF ~EndsWithAny(clean_path, HtmlExts)
    THEN RStrip(clean_path, "/") \o <<"/", "index", ".", "html">>
    ELSE clean_path

get_page_filepath(url_path, output_dir) ==
    IF url_path = <<>> \/ url_path = <<"/">>
    THEN PathJoin(output_dir, <<"index", ".", "html">>)
    ELSE PathJoin(output_dir, WithIndex(RemoveDotDotSlash(url_path)))

\* dict helpers: a dict is a function on its set of keys
DictSet(d, k, v) == [x \in (DOMAIN d) \cup {k} |-> IF x = k THEN v ELSE d[x]]

EmptyDict == [x \in {} |-> x]

\* get_relative_href, lines 21-29: an absolute URL is cut down to its path,
\* query and fragment; else leading slashes are stripped
HrefLocal(href) ==
    IF StartsWithAny(href, {<<"http", ":", "/", "/">>, <<"https", ":", "/", "/">>})
    THEN urlunparse(<<>>, <<>>, urlparse(href).path, urlparse(href).query,
                    urlparse(href).fragment)
    ELSE IF StartsWith(href, <<"/">>) THEN LStrip(href, "/")
    ELSE href

\* lines 31-34
PathPart(h) == Split(Split(h, "?")[1], "#")[1]

QueryPart(h) == IF Len(h) > Len(PathPart(h)) THEN Drop(h, Len(PathPart(h))) ELSE <<>>

CleanPath(h) == RStrip(PathPart(h), "/")

\* lines 36-49: the key of the map the href resolves to, or None
TargetKey(clean_path, keys) ==
    IF clean_path \in keys THEN clean_path
    ELSE IF ~EndsWithAny(clean_path, HtmlExts)
         THEN IF LStrip(clean_path \o <<"/", "index", ".", "html">>, "/") \in keys
              THEN LStrip(clean_path \o <<"/", "index", ".", "html">>, "/")
              ELSE IF clean_path \o <<".", "html">> \in keys
                   THEN clean_path \o <<".", "html">>
                   ELSE None
    ELSE None

\* lines 51-52
HrefTo(key, query_part, current_page_path, url_to_filepath) ==
    IF key = None THEN None
    ELSE relpath(url_to_filepath[key], Parent(current_page_path)) \o query_part

\* get_relative_href: the href of a page link as a path relative to the
\* directory of the current page, or None when its target is not in the map
get_relative_href(href, current_page_path, url_to_filepath) ==
    HrefTo(TargetKey(CleanPath(HrefLocal(href)), DOMAIN url_to_filepath),
           QueryPart(HrefLocal(href)), current_page_path, url_to_filepath)

(***************************************************************************)
(* src/src/content_processor.py                                            *)
(***************************************************************************)
ResourceExts ==
    {<<".", "css">>, <<".", "js">>, <<".", "ico">>, <<".", "png">>,
     <<".", "jpg">>, <<".", "jpeg">>, <<".", "gif">>}

\* how _analyze_page_sync classifies an href: "resource", "page" or "none"
HrefClass(href) ==
    IF EndsWithAny(href, ResourceExts) THEN "resource"
    ELSE IF EndsWithAny(href, HtmlExts)
            \/ ~EndsWithAny(href, {<<"/">>, <<".", "php">>, <<".", "asp">>})
         THEN "page"
    ELSE "none"

\* process_path: the canonical path appended for one reference, if any
ProcessPath(path, base_domain) ==
    IF path = <<>> THEN <<>>
    ELSE IF Truthy(convert_to_relative_path(path, base_domain))
         THEN <<convert_to_relative_path(path, base_domain)>>
    ELSE <<>>

RECURSIVE CollectPaths(_, _, _)
CollectPaths(refs, class, base_domain) ==
    IF refs = <<>> THEN <<>>
    ELSE (IF class = "src" \/ HrefClass(Head(refs)) = class
          THEN ProcessPath(Head(refs), base_domain) ELSE <<>>)
         \o CollectPaths(Tail(refs), class, base_domain)

\* _analyze_page_sync: the resources and the page links of a document, a
\* document being the values of its src attributes and of its href attributes
analyze_page(doc, base_domain) ==
    [resources  |-> CollectPaths(doc.srcs, "src", base_domain)
                    \o CollectPaths(doc.hrefs, "resource", base_domain),
     page_links |-> CollectPaths(doc.hrefs, "page", base_domain)]

\* fix_path of _adjust_resource_paths_sync
\* lines 72-75
FixRelative(original_path, base_domain) ==
    IF StartsWith(original_path, <<"/">>) THEN LStrip(original_path, "/")
    ELSE convert_to_relative_path(original_path, base_domain)

\* lines 77-88
FixTo(relative_path, original_path, current_page_path, url_to_filepath, output_dir) ==
    IF ~Truthy(relative_path) THEN original_path
    ELSE relpath(IF relative_path \in DOMAIN url_to_filepath
                 THEN url_to_filepath[relative_path]
                 ELSE PathJoin(output_dir, relative_path),
                 Parent(current_page_path))

fix_path(original_path, current_page_path, url_to_filepath, base_domain, output_dir) ==
    FixTo(FixRelative(original_path, base_domain), original_path, current_page_path,
          url_to_filepath, output_dir)

\* the value _adjust_resource_paths_sync leaves in one href attribute
AdjustHref(href, current_page_path, url_to_filepath, base_domain, output_dir) ==
    IF ~should_process_href(href) THEN href
    ELSE IF EndsWithAny(href, ResourceExts)
         THEN fix_path(href, current_page_path, url_to_filepath, base_domain, output_dir)
    ELSE IF Truthy(get_relative_href(href, current_page_path, url_to_filepath))
         THEN get_relative_href(href, current_page_path, url_to_filepath)
    ELSE href

\* _adjust_resource_paths_sync: the rewritten document
adjust_resource_paths(doc, current_page_path, url_to_filepath, base_domain, output_dir) ==
    [srcs  |-> [k \in 1..Len(doc.srcs) |->
                  fix_path(doc.srcs[k], current_page_path, url_to_filepath,
                           base_domain, output_dir)],
     hrefs |-> [k \in 1..Len(doc.hrefs) |->
                  AdjustHref(doc.hrefs[k], current_page_path, url_to_filepath,
                             base_domain, output_dir)]]

(***************************************************************************)
(* src/src/config.py and the mirrored site                                 *)
(***************************************************************************)
\* DEFAULT_CONFIG['MAX_CONCURRENT_REQUESTS'] is 10 in config.py; the model
\* runs the same code with a limit of 2, so that the limit is reached by a
\* site of three pages
MAX_CONCURRENT_REQUESTS == 2

\* DEFAULT_CONFIG['MAX_RETRIES']
MAX_RETRIES == 3

TARGET_URL == <<"https", ":", "/", "/", "h", "/">>

\* WebScraper.__init__
base_url == RStrip(TARGET_URL, "/")

base_domain == urlparse(TARGET_URL).netloc

output_dir == PathOf(<<"out">>)

\* the references of the pages of the site
RefA == <<"/", "a">>

RefB == <<"/", "b">>

RefRoot == <<"/">>

RefPng == <<"/", "l", ".", "png">>

UrlRoot == base_url

UrlA == urljoin(base_url, <<"a">>)

UrlB == urljoin(base_url, <<"b">>)

\* how many links to page a the root page holds
LinkCopies == 2

\* the documents the server holds, by URL.  The root page shows an image
\* and links to page a LinkCopies times and to page b; page a shows the
\* same image twice and links back to the root; page b links
\* to page a.
Site ==
    [u \in {UrlRoot, UrlA, UrlB} |->
        IF u = UrlRoot
        THEN [srcs |-> <<RefPng>>,
              hrefs |-> [k \in 1..LinkCopies |-> RefA] \o <<RefB>>]
        ELSE IF u = UrlA
        THEN [srcs |-> <<RefPng, RefPng>>, hrefs |-> <<RefRoot>>]
        ELSE [srcs |-> <<>>, hrefs |-> <<RefA>>]]


\* what one GET for a page can end in: a response below 400 with the text
\* of the page (only for a URL the server holds), a response below 400 with
\* an empty body, an error status, or an exception of the client
PageOutcomes(url) ==
    (IF url \in DOMAIN Site THEN {"ok"} ELSE {})
    \cup {"empty", "status404", "status500", "timeout"}

\* what one GET for a resource can end in, up to the first chunk: "oserror"
\* is a response with status 200 whose file cannot be opened
ResourceOutcomes == {"ok", "oserror", "status404", "status500", "timeout"}

\* the failures the specification names transient
Transient(outcome) == outcome \in {"status500", "timeout", "stream_error"}

(***************************************************************************)
(* The values a run over the site computes with the functions above, each  *)
(* computed once and looked up by the steps of the run                     *)
(***************************************************************************)
Range(seq) == {seq[k] : k \in DOMAIN seq}

NoDoc == [srcs |-> <<>>, hrefs |-> <<>>]

\* the content fetch_content returns for a URL
Content(url) == IF url \in DOMAIN Site THEN Site[url] ELSE NoDoc

\* analyze_page(content, full_url) for the pages of the site
analysis == [u \in DOMAIN Site |-> analyze_page(Site[u], base_domain)]

\* the paths that can enter the page queue: the root path and the page links
UrlPaths == {<<>>} \cup UNION {Range(analysis[u].page_links) : u \in DOMAIN Site}

\* the canonical paths of the resources of the site
Resources == UNION {Range(analysis[u].resources) : u \in DOMAIN Site}

\* process_page, line 46: full_url = urljoin(self.base_url, url_path)
full_url == [url_path \in UrlPaths |-> urljoin(base_url, url_path)]

\* process_page, line 73: page_path = get_page_filepath(url_path, output_dir)
page_path == [url_path \in UrlPaths |-> get_page_filepath(url_path, output_dir)]

\* the file the operating system opens for page_path
page_file == [url_path \in UrlPaths |-> AbsPath(page_path[url_path])]

\* the values url_to_filepath can take: line 74 maps a path to its page_path
Maps == {[k \in keys |-> page_path[k]] : keys \in SUBSET UrlPaths}

\* adjust_resource_paths for every page and every map, as pairs of the
\* arguments and the result
Adjusted ==
    {<<x, adjust_resource_paths(Content(full_url[x[1]]), page_path[x[1]],
                                x[2], base_domain, output_dir)>> :
        x \in UrlPaths \X Maps}

\* process_page, lines 77-78: the rewritten content of the page at url_path,
\* given the map handed to adjust_resource_paths
adjusted_content(url_path, map) ==
    (CHOOSE p \in Adjusted : p[1] = <<url_path, map>>)[2]

(***************************************************************************)
(* src/src/downloader.py                                                   *)
(***************************************************************************)
\* the exceptions a GET raises inside the try block of fetch_content and of
\* download_file
Raised(outcome) == outcome \in {"timeout", "oserror", "stream_error"}

\* 'except Exception' of fetch_content and download_file: every exception
\* raised in the try block is caught there
CaughtInside(outcome) == Raised(outcome)

\* the exceptions that leave the decorated function
Propagates(outcome) == Raised(outcome) /\ ~CaughtInside(outcome)

\* backoff.on_exception(..., max_tries=MAX_RETRIES): another attempt is made
\* when the call raised and tries are left
RetryAgain(outcome, tries) == Propagates(outcome) /\ tries < MAX_RETRIES

\* a fetch_content that takes the body of a 5xx response for content
FetchValueLax(outcome) == outcome \in {"ok", "status500"}

\* fetch_content, lines 37-40, as process_page tests it at line 54 ('if not
\* content'): the text of the response counts as content unless it is empty;
\* None is returned when the status is 400 or more
FetchValue(outcome) == outcome = "ok"

\* the GET was answered with a status below 400 and response.text() was
\* read, line 40
Fetched(outcome) == outcome \in {"ok", "empty"}

\* download_file: the file is opened when the status is 200, and the
\* response is streamed into it when the file could be opened
StatusIs200(outcome) == outcome \in {"ok", "oserror"}

Opened(outcome) == StatusIs200(outcome) /\ outcome # "oserror"

\* download_file, lines 69-74: every chunk was written
Streamed(outcome) == ~Raised(outcome)

\* a semaphore that never makes a caller wait
CanAcquireAlways(value) == TRUE

\* asyncio.Semaphore: acquire() returns at once while the value is positive
CanAcquire(value) == value > 0

\* a call that leaves 'async with self.semaphore' without releasing
ReleaseNot(value) == value

\* asyncio.Semaphore.release()
Release(value) == value + 1

\* resource_key = str(filepath.relative_to(filepath.parent.parent)):
\* the last two segments of the path (all of it when it has no more)
ResourceKey(filepath) ==
    LET n == Len(filepath.parts)
    IN  Join(SubSeq(filepath.parts, IF n > 2 THEN n - 1 ELSE 1, n), "/")

\* a download_file that enters the key before it knows the outcome
LedgerAfterAlways(ledger, key, success) == ledger \cup {key}

\* the ledger after download_file returns: the key is added on the path
\* that streamed the whole response, and on no path that returns False
LedgerAfter(ledger, key, success) == IF success THEN ledger \cup {key} ELSE ledger

(***************************************************************************)
(* src/src/web_scraper.py: the state of one run                            *)
(***************************************************************************)
VARIABLES
    run_pc,              \* where run() is: "init", "loop", "batch", "done"
    page_queue,          \* self.page_queue
    processed_urls,      \* self.processed_urls
    processed_resources, \* self.processed_resources
    url_to_filepath,     \* self.url_to_filepath
    semaphore,           \* the value of Downloader.semaphore
    tasks,               \* the process_page tasks of the batch in progress
    files,               \* the files on disk, by absolute path
    report,              \* what run() reports at its end
    fetches,             \* history: the GETs started for each page URL
    gets_ok,             \* history: the GETs streamed to the end, by resource
    gave_up_after,       \* history: how many attempts had been made when a
                         \* transient failure was reported
    failed_urls,         \* history: the page URLs skipped for lack of content
    expanded,            \* history: the page URLs whose links were queued
    saved,               \* history: the page URLs whose file was written
    errored,             \* history: the page URLs whose processing raised
    fetched_ok,          \* history: the page URLs a GET answered below 400
    unwritten,           \* history: the page URLs whose write_text raised
    call                 \* one call of a function of the rewriter, examined
                         \* apart from a run

run_vars == <<run_pc, page_queue, processed_urls, processed_resources,
              url_to_filepath, semaphore, tasks, files, report,
              fetches, gets_ok, gave_up_after, failed_urls, expanded, saved,
              errored, fetched_ok, unwritten>>

vars == <<run_vars, call>>

hist == <<fetches, gets_ok, gave_up_after, failed_urls, expanded, saved>>

\* a process_page call that has returned
DoneTask(url_path) ==
    [path |-> url_path, url |-> full_url[url_path], pc |-> "done",
     tries |-> 0, dl |-> <<>>, adjusted |-> NoDoc]

\* adds one to a counter kept per key
Count(f, k) == IF k \in DOMAIN f THEN f[k] ELSE 0

Bump(f, k) == DictSet(f, k, Count(f, k) + 1)

\* no function is examined during a run
NoCall == [op |-> "none"]

\* WebScraper.__init__ and Downloader.__init__
Created ==
    /\ run_pc = "init"
    /\ page_queue = <<>>
    /\ processed_urls = {}
    /\ processed_resources = {}
    /\ url_to_filepath = EmptyDict
    /\ semaphore = MAX_CONCURRENT_REQUESTS
    /\ tasks = <<>>
    /\ files = EmptyDict
    /\ report = "none"
    /\ fetches = EmptyDict
    /\ gets_ok = EmptyDict
    /\ gave_up_after = {}
    /\ failed_urls = {}
    /\ expanded = {}
    /\ saved = {}
    /\ errored = {}
    /\ fetched_ok = {}
    /\ unwritten = {}

Init == Created /\ call = NoCall

\* run(), line 100: the root path is queued
RunStart ==
    /\ run_pc = "init"
    /\ run_pc' = "loop"
    /\ page_queue' = Append(page_queue, <<>>)
    /\ UNCHANGED <<processed_urls, processed_resources, url_to_filepath,
                   semaphore, tasks, files, report, hist>>
    /\ UNCHANGED <<errored, fetched_ok, unwritten, call>>

\* the history after a call has returned: a call that reports a transient
\* failure records the attempts it made
GaveUp(h, outcome, tries, success) ==
    IF Transient(outcome) /\ ~success THEN h \cup {tries} ELSE h

\* processed_urls.add(full_url), lines 56 and 59
MarkVisited(visited, url) == visited \cup {url}

\* process_page up to its first suspension, lines 46-53 and fetch_content
\* line 34: a visited URL returns at once, another one takes a slot of the
\* semaphore and sends its GET, or waits for a slot
StartPage(url_path, value, visited) ==
    IF full_url[url_path] \in visited THEN DoneTask(url_path)
    ELSE IF CanAcquire(value)
         THEN [DoneTask(url_path) EXCEPT !.pc = "fetching", !.tries = 1]
    ELSE [DoneTask(url_path) EXCEPT !.pc = "wait", !.tries = 1]

\* process_batch: the tasks of a batch take their first step one after the
\* other, before any response arrives
RECURSIVE StartPages(_, _, _)
StartPages(batch, value, visited) ==
    IF batch = <<>> THEN <<>>
    ELSE <<StartPage(Head(batch), value, visited)>>
         \o StartPages(Tail(batch),
                       IF StartPage(Head(batch), value, visited).pc = "fetching"
                       THEN value - 1 ELSE value,
                       visited)

RECURSIVE BumpAll(_, _)
BumpAll(f, ts) ==
    IF ts = <<>> THEN f
    ELSE BumpAll(IF Head(ts).pc = "fetching" THEN Bump(f, Head(ts).url) ELSE f,
                 Tail(ts))

Fetching(ts) == {i \in DOMAIN ts : ts[i].pc = "fetching"}

\* run(), lines 101 and 106-108: the length of the next batch
BatchLen(queue) ==
    IF Len(queue) < MAX_CONCURRENT_REQUESTS THEN Len(queue) ELSE MAX_CONCURRENT_REQUESTS

\* run(), lines 104-110: up to batch_size paths leave the queue and their
\* tasks start
TakeBatch ==
    /\ run_pc = "loop"
    /\ page_queue # <<>>
    /\ page_queue' = Drop(page_queue, BatchLen(page_queue))
    /\ tasks' = StartPages(Take(page_queue, BatchLen(page_queue)), semaphore,
                           processed_urls)
    /\ semaphore' = semaphore - Cardinality(Fetching(tasks'))
    /\ fetches' = BumpAll(fetches, tasks')
    /\ run_pc' = "batch"
    /\ UNCHANGED <<processed_urls, processed_resources, url_to_filepath, files,
                   report, gets_ok, gave_up_after, failed_urls, expanded, saved>>
    /\ UNCHANGED <<errored, fetched_ok, unwritten, call>>

\* a call that waits for the semaphore gets a slot and sends its GET:
\* fetch_content of task i when j = 0, else download j of task i
Acquire(i, j) ==
    /\ run_pc = "batch"
    /\ i \in DOMAIN tasks
    /\ CanAcquire(semaphore)
    /\ IF j = 0 THEN tasks[i].pc = "wait"
       ELSE j \in DOMAIN tasks[i].dl /\ tasks[i].dl[j].pc = "wait"
    /\ tasks' = IF j = 0 THEN [tasks EXCEPT ![i].pc = "fetching"]
                ELSE [tasks EXCEPT ![i].dl[j].pc = "get"]
    /\ fetches' = IF j = 0 THEN Bump(fetches, tasks[i].url) ELSE fetches
    /\ semaphore' = semaphore - 1
    /\ UNCHANGED <<run_pc, page_queue, processed_urls, processed_resources,
                   url_to_filepath, files, report, gets_ok, gave_up_after, failed_urls,
                   expanded, saved>>
    /\ UNCHANGED <<errored, fetched_ok, unwritten, call>>

\* fetch_content returns to process_page, lines 53-59: the slot is released;
\* the URL is marked visited; without content the task returns
FetchReturn(i, outcome) ==
    /\ run_pc = "batch"
    /\ i \in DOMAIN tasks
    /\ tasks[i].pc = "fetching"
    /\ outcome \in PageOutcomes(tasks[i].url)
    /\ semaphore' = Release(semaphore)
    /\ IF RetryAgain(outcome, tasks[i].tries)
       THEN /\ tasks' = [tasks EXCEPT ![i].pc = "wait", ![i].tries = @ + 1]
            /\ UNCHANGED <<processed_urls, gave_up_after, failed_urls, fetched_ok>>
       ELSE /\ processed_urls' = MarkVisited(processed_urls, tasks[i].url)
            /\ gave_up_after' = GaveUp(gave_up_after, outcome, tasks[i].tries,
                                        FetchValue(outcome) /\ ~Propagates(outcome))
            /\ failed_urls' = IF outcome = "ok" THEN failed_urls
                              ELSE failed_urls \cup {tasks[i].url}
            /\ fetched_ok' = IF Fetched(outcome) THEN fetched_ok \cup {tasks[i].url}
                             ELSE fetched_ok
            /\ tasks' = IF FetchValue(outcome) /\ ~Propagates(outcome)
                        THEN [tasks EXCEPT ![i].pc = "analyze"]
                        ELSE [tasks EXCEPT ![i] = DoneTask(tasks[i].path)]
    /\ UNCHANGED <<run_pc, page_queue, processed_resources, url_to_filepath,
                   files, report, fetches, gets_ok, expanded, saved>>
    /\ UNCHANGED <<errored, unwritten, call>>

\* what analyze_page returns to process_page, line 62
Analyzed(url) ==
    IF url \in DOMAIN analysis THEN analysis[url]
    ELSE [resources |-> <<>>, page_links |-> <<>>]

\* process_page, lines 67-74, after the downloads of the page have ended:
\* the links whose URL is not visited are queued and the location of the
\* page is entered in the map; adjust_resource_paths is handed to the executor
Expand(i) ==
    /\ page_queue' = page_queue \o
           SelectSeq(Analyzed(tasks[i].url).page_links,
                     LAMBDA link : full_url[link] \notin processed_urls)
    /\ url_to_filepath' = DictSet(url_to_filepath, tasks[i].path, page_path[tasks[i].path])
    /\ expanded' = expanded \cup {tasks[i].url}
    /\ tasks' = [tasks EXCEPT ![i].pc = "adjust", ![i].dl = <<>>]

\* the most download tasks one page of the site starts
MaxResources ==
    CHOOSE n \in {Len(analysis[u].resources) : u \in DOMAIN Site} :
        \A v \in DOMAIN Site : Len(analysis[v].resources) <= n

\* analyze_page returns, lines 62-65 and process_resources: one download
\* task is created for every resource of the page
AnalyzeDone(i) ==
    /\ run_pc = "batch"
    /\ i \in DOMAIN tasks
    /\ tasks[i].pc = "analyze"
    /\ IF Analyzed(tasks[i].url).resources = <<>>
       THEN Expand(i)
       ELSE /\ tasks' = [tasks EXCEPT
                   ![i].pc = "resources",
                   ![i].dl = [j \in DOMAIN Analyzed(tasks[i].url).resources |->
                                [res |-> Analyzed(tasks[i].url).resources[j],
                                 pc |-> "new", tries |-> 0, ok |-> FALSE]]]
            /\ UNCHANGED <<page_queue, url_to_filepath, expanded>>
    /\ UNCHANGED <<run_pc, processed_urls, processed_resources, semaphore, files,
                   report, fetches, gets_ok, gave_up_after, failed_urls, saved>>
    /\ UNCHANGED <<errored, fetched_ok, unwritten, call>>

\* process_resources, line 36: resource_path = self.output_dir / resource
resource_path == [resource \in Resources |-> PathJoin(output_dir, resource)]

\* download_file, line 54
resource_key == [resource \in Resources |-> ResourceKey(resource_path[resource])]

\* the file the operating system opens for resource_path
resource_file == [resource \in Resources |-> AbsPath(resource_path[resource])]

ResourceFile(state) == [kind |-> "resource", state |-> state]

\* download_file up to its first suspension, lines 54-61: a key of the
\* ledger returns True at once, another one takes a slot and sends its GET,
\* or waits for a slot
DlStart(i, j) ==
    /\ run_pc = "batch"
    /\ i \in DOMAIN tasks
    /\ j \in DOMAIN tasks[i].dl
    /\ tasks[i].dl[j].pc = "new"
    /\ IF resource_key[tasks[i].dl[j].res] \in processed_resources
       THEN /\ tasks' = [tasks EXCEPT ![i].dl[j].pc = "done", ![i].dl[j].ok = TRUE]
            /\ semaphore' = semaphore
       ELSE IF CanAcquire(semaphore)
       THEN /\ tasks' = [tasks EXCEPT ![i].dl[j].pc = "get", ![i].dl[j].tries = 1]
            /\ semaphore' = semaphore - 1
       ELSE /\ tasks' = [tasks EXCEPT ![i].dl[j].pc = "wait", ![i].dl[j].tries = 1]
            /\ semaphore' = semaphore
    /\ UNCHANGED <<run_pc, page_queue, processed_urls, processed_resources,
                   url_to_filepath, files, report, hist>>
    /\ UNCHANGED <<errored, fetched_ok, unwritten, call>>

\* the response to the GET of a download arrives, lines 61-69: unless the
\* status is 200 and the file can be opened, download_file returns False and
\* releases its slot; else the file is opened for writing, which empties it
DlResponse(i, j, outcome) ==
    /\ run_pc = "batch"
    /\ i \in DOMAIN tasks
    /\ j \in DOMAIN tasks[i].dl
    /\ tasks[i].dl[j].pc = "get"
    /\ outcome \in ResourceOutcomes
    /\ IF Opened(outcome)
       THEN /\ files' = DictSet(files, resource_file[tasks[i].dl[j].res],
                                ResourceFile("partial"))
            /\ tasks' = [tasks EXCEPT ![i].dl[j].pc = "stream"]
            /\ UNCHANGED <<semaphore, processed_resources, gave_up_after>>
       ELSE IF RetryAgain(outcome, tasks[i].dl[j].tries)
       THEN /\ tasks' = [tasks EXCEPT ![i].dl[j].pc = "wait",
                                      ![i].dl[j].tries = @ + 1]
            /\ semaphore' = Release(semaphore)
            /\ UNCHANGED <<files, processed_resources, gave_up_after>>
       ELSE /\ tasks' = [tasks EXCEPT ![i].dl[j].pc = "done"]
            /\ semaphore' = Release(semaphore)
            /\ processed_resources' =
                   LedgerAfter(processed_resources, resource_key[tasks[i].dl[j].res], FALSE)
            /\ gave_up_after' = GaveUp(gave_up_after, outcome, tasks[i].dl[j].tries, FALSE)
            /\ files' = files
    /\ UNCHANGED <<run_pc, page_queue, processed_urls, url_to_filepath, report,
                   fetches, gets_ok, failed_urls, expanded, saved>>
    /\ UNCHANGED <<errored, fetched_ok, unwritten, call>>

\* the streaming of a response ends, lines 69-78: after the last chunk the
\* key enters the ledger and download_file returns True; an error while
\* streaming leaves the file as it is and download_file returns False
DlStreamEnd(i, j, outcome) ==
    /\ run_pc = "batch"
    /\ i \in DOMAIN tasks
    /\ j \in DOMAIN tasks[i].dl
    /\ tasks[i].dl[j].pc = "stream"
    /\ outcome \in {"ok", "stream_error"}
    /\ IF RetryAgain(outcome, tasks[i].dl[j].tries)
       THEN /\ tasks' = [tasks EXCEPT ![i].dl[j].pc = "wait",
                                      ![i].dl[j].tries = @ + 1]
            /\ UNCHANGED <<files, processed_resources, gave_up_after, gets_ok>>
       ELSE /\ tasks' = [tasks EXCEPT ![i].dl[j].pc = "done",
                                      ![i].dl[j].ok = Streamed(outcome)]
            /\ files' = IF Streamed(outcome)
                        THEN DictSet(files, resource_file[tasks[i].dl[j].res],
                                     ResourceFile("complete"))
                        ELSE files
            /\ processed_resources' =
                   LedgerAfter(processed_resources, resource_key[tasks[i].dl[j].res],
                               Streamed(outcome))
            /\ gets_ok' = IF Streamed(outcome) THEN Bump(gets_ok, tasks[i].dl[j].res)
                          ELSE gets_ok
            /\ gave_up_after' = GaveUp(gave_up_after, outcome, tasks[i].dl[j].tries,
                                       Streamed(outcome))
    /\ semaphore' = Release(semaphore)
    /\ UNCHANGED <<run_pc, page_queue, processed_urls, url_to_filepath, report,
                   fetches, failed_urls, expanded, saved>>
    /\ UNCHANGED <<errored, fetched_ok, unwritten, call>>

\* a gather that would wait for results that never come: it returns only
\* when every download has returned True
GatherDoneAllOk(dl) == \A j \in DOMAIN dl : dl[j].pc = "done" /\ dl[j].ok

\* asyncio.gather(*tasks), line 42: it returns when every download_file has
\* returned, whatever it returned; download_file raises nothing
GatherDone(dl) == \A j \in DOMAIN dl : dl[j].pc = "done"

\* asyncio.gather of process_resources returns, line 42
ResourcesDone(i) ==
    /\ run_pc = "batch"
    /\ i \in DOMAIN tasks
    /\ tasks[i].pc = "resources"
    /\ GatherDone(tasks[i].dl)
    /\ Expand(i)
    /\ UNCHANGED <<run_pc, processed_urls, processed_resources, semaphore, files,
                   report, fetches, gets_ok, gave_up_after, failed_urls, saved>>
    /\ UNCHANGED <<errored, fetched_ok, unwritten, call>>

\* _adjust_resource_paths_sync runs in the executor, lines 77-78: it reads
\* the map as it is at that moment
AdjustRun(i) ==
    /\ run_pc = "batch"
    /\ i \in DOMAIN tasks
    /\ tasks[i].pc = "adjust"
    /\ tasks' = [tasks EXCEPT
           ![i].pc = "save",
           ![i].adjusted = adjusted_content(tasks[i].path, url_to_filepath)]
    /\ UNCHANGED <<run_pc, page_queue, processed_urls, processed_resources,
                   url_to_filepath, semaphore, files, report, hist>>
    /\ UNCHANGED <<errored, fetched_ok, unwritten, call>>

PageFile(doc) == [kind |-> "page", doc |-> doc]

\* page_path.write_text(adjusted_content), line 83: the file holds the
\* rewritten page, unless mkdir or write_text raised OSError
WriteText(fs, file, doc, written) ==
    IF written THEN DictSet(fs, file, PageFile(doc)) ELSE fs

\* process_page, lines 80-85: the rewritten page is written, or the write
\* raises OSError, which is logged
SavePage(i, written) ==
    /\ run_pc = "batch"
    /\ i \in DOMAIN tasks
    /\ tasks[i].pc = "save"
    /\ written \in BOOLEAN
    /\ files' = WriteText(files, page_file[tasks[i].path], tasks[i].adjusted, written)
    /\ saved' = IF written THEN saved \cup {tasks[i].url} ELSE saved
    /\ unwritten' = IF written THEN unwritten ELSE unwritten \cup {tasks[i].url}
    /\ tasks' = [tasks EXCEPT ![i] = DoneTask(tasks[i].path)]
    /\ UNCHANGED <<run_pc, page_queue, processed_urls, processed_resources,
                   url_to_filepath, semaphore, report, fetches, gets_ok, gave_up_after,
                   failed_urls, expanded>>
    /\ UNCHANGED <<errored, fetched_ok, call>>

\* an error that leaves process_page: gather of process_batch would hand it
\* to run
PageRaised(task) == [task EXCEPT !.pc = "raised"]

\* process_page, lines 87-89: the error is logged and process_page returns
PageCaught(task) == DoneTask(task.path)

\* analyze_page (line 62) or adjust_resource_paths (lines 77-78) raises an
\* Exception: the except clause of lines 87-89 logs it and marks the URL
\* visited
PageError(i) ==
    /\ run_pc = "batch"
    /\ i \in DOMAIN tasks
    /\ tasks[i].pc \in {"analyze", "adjust"}
    /\ tasks' = [tasks EXCEPT ![i] = PageCaught(tasks[i])]
    /\ processed_urls' = MarkVisited(processed_urls, tasks[i].url)
    /\ errored' = errored \cup {tasks[i].url}
    /\ UNCHANGED <<run_pc, page_queue, processed_resources, url_to_filepath,
                   semaphore, files, report, hist>>
    /\ UNCHANGED <<fetched_ok, unwritten, call>>

\* asyncio.gather of process_batch returns, line 94
BatchDone ==
    /\ run_pc = "batch"
    /\ \A i \in DOMAIN tasks : tasks[i].pc = "done"
    /\ run_pc' = "loop"
    /\ tasks' = <<>>
    /\ UNCHANGED <<page_queue, processed_urls, processed_resources,
                   url_to_filepath, semaphore, files, report, hist>>
    /\ UNCHANGED <<errored, fetched_ok, unwritten, call>>

\* run(), lines 104 and 112-113: the queue is empty, the run reports its end
RunFinish ==
    /\ run_pc = "loop"
    /\ page_queue = <<>>
    /\ run_pc' = "done"
    /\ report' = "completed"
    /\ UNCHANGED <<page_queue, processed_urls, processed_resources,
                   url_to_filepath, semaphore, tasks, files, hist>>
    /\ UNCHANGED <<errored, fetched_ok, unwritten, call>>

Next ==
    \/ RunStart
    \/ TakeBatch
    \/ \E i \in 1..MAX_CONCURRENT_REQUESTS :
          \/ \E o \in {"ok", "empty", "status404", "status500", "timeout"} :
                FetchReturn(i, o)
          \/ AnalyzeDone(i)
          \/ ResourcesDone(i)
          \/ AdjustRun(i)
          \/ PageError(i)
          \/ \E w \in BOOLEAN : SavePage(i, w)
          \/ \E j \in 0..MaxResources : Acquire(i, j)
          \/ \E j \in 1..MaxResources :
                \/ DlStart(i, j)
                \/ \E o \in ResourceOutcomes : DlResponse(i, j, o)
                \/ \E o \in {"ok", "stream_error"} : DlStreamEnd(i, j, o)
    \/ BatchDone
    \/ RunFinish

Spec == Init /\ [][Next]_vars

\* the run under a fair scheduler: the event loop runs every task that can
\* take a step, and every request sent is answered
FairSpec == Spec /\ WF_vars(Next)

(***************************************************************************)
(* The functions of the rewriter, each applied once to a reference drawn   *)
(* from the forms a page can hold                                          *)
(***************************************************************************)
\* references with a scheme that names no location, and fragments
NonNavigableRefs ==
    {<<"data", ":", "x">>, <<"blob", ":", "x">>, <<"mailto", ":", "x">>,
     <<"tel", ":", "1">>, <<"javascript", ":", "x">>, <<"#", "f">>}

\* references to another host than base_domain
CrossDomainRefs ==
    {<<"https", ":", "/", "/", "o", "/", "a">>,
     <<"http", ":", "/", "/", "o", "/">>,
     <<"https", ":", "/", "/", "o">>,
     <<"https", ":", "/", "/", "o", "/", "l", ".", "png">>,
     <<"/", "/", "o", "/", "l", ".", "png">>,
     <<"/", "/", "o", "/", "a">>,
     <<"ftp", ":", "/", "/", "o", "/", "a">>}

\* references to the mirrored host: absolute, root-relative and relative,
\* percent-encoded, with a query string, and with parent-traversal segments
SameDomainRefs ==
    {<<"https", ":", "/", "/", "h", "/", "l", ".", "png">>,
     <<"https", ":", "/", "/", "h", "/", "a">>,
     <<"/", "l", ".", "png">>,
     <<"l", ".", "png">>,
     <<"d", "/", "l", ".", "png">>,
     <<"/", "l", "%2E", "png">>,
     <<"d", "/", "l", "%20", "x", ".", "png">>,
     <<"/", "l", ".", "png", "?", "v", "=", "1">>,
     <<"/", "a">>,
     <<"a">>,
     <<"/">>,
     <<"/", ".", ".", "/", "x", ".", "png">>,
     <<".", ".", "/", ".", ".", "/", "x", ".", "png">>,
     <<".", ".">>,
     <<"/", "a", "/", "css", "/", "site", ".", "css">>,
     <<"/", "b", "/", "css", "/", "site", ".", "css">>,
     <<"/", "a", "/", "index", ".", "html">>}

Refs == NonNavigableRefs \cup CrossDomainRefs \cup SameDomainRefs

\* the pages that hold the reference, by their path: at depth 0, 1 and 2
CallPages == {<<>>, <<"a">>, <<"a", "/", "b">>}

\* the URL maps at the time of the call: line 74 of web_scraper.py maps the
\* path of a page to its get_page_filepath
CallMaps ==
    {[k \in keys |-> get_page_filepath(k, output_dir)] :
        keys \in {{}, {<<>>}, {<<>>, <<"a">>},
                  {<<>>, <<"a">>, <<"a", "/", "index", ".", "html">>}}}

CallInputs ==
    [op : {"input"}, ref : Refs, attr : {"src", "href"}, page : CallPages,
     map : CallMaps]

CallInit == Created /\ call \in CallInputs

\* convert_to_relative_path(ref, base_domain)
Normalize ==
    /\ call.op = "input"
    /\ call' = [op |-> "normalized", ref |-> call.ref, attr |-> call.attr,
                page |-> call.page, map |-> call.map,
                out |-> convert_to_relative_path(call.ref, base_domain)]
    /\ UNCHANGED run_vars

\* _adjust_resource_paths_sync, lines 90-103: the value left in the
\* attribute that holds the reference
Rewritten(ref, attr, current_page_path, map) ==
    IF attr = "src"
    THEN fix_path(ref, current_page_path, map, base_domain, output_dir)
    ELSE AdjustHref(ref, current_page_path, map, base_domain, output_dir)

Rewrite ==
    /\ call.op = "input"
    /\ call' = [op |-> "rewritten", ref |-> call.ref, attr |-> call.attr,
                page |-> call.page, map |-> call.map,
                out |-> Rewritten(call.ref, call.attr,
                                  get_page_filepath(call.page, output_dir),
                                  call.map)]
    /\ UNCHANGED run_vars

\* _analyze_page_sync, lines 46-54: what a reference is taken for
ReferenceKind(ref, attr) == IF attr = "src" THEN "resource" ELSE HrefClass(ref)

\* the path the reference is listed under by process_path, if any
Listed(ref, attr) ==
    IF ReferenceKind(ref, attr) = "none" THEN <<>>
    ELSE ProcessPath(ref, base_domain)

\* the file the run opens for writing on account of the reference:
\* process_resources line 36 and download_file line 68 for a resource,
\* process_page lines 73 and 83 for a page
WrittenFor(ref, attr) ==
    IF Listed(ref, attr) = <<>> THEN {}
    ELSE IF ReferenceKind(ref, attr) = "resource"
         THEN {AbsPath(PathJoin(output_dir, Listed(ref, attr)[1]))}
    ELSE {AbsPath(get_page_filepath(Listed(ref, attr)[1], output_dir))}

Locate ==
    /\ call.op = "input"
    /\ call' = [op |-> "located", ref |-> call.ref, attr |-> call.attr,
                page |-> call.page, map |-> call.map,
                out |-> WrittenFor(call.ref, call.attr)]
    /\ UNCHANGED run_vars

\* the key under which download_file looks the reference up in
\* processed_resources and enters it there: process_resources line 36 and
\* download_file line 54; none for a reference that is no resource
LedgerKeyFor(ref, attr) ==
    IF Listed(ref, attr) = <<>> \/ ReferenceKind(ref, attr) # "resource" THEN {}
    ELSE {ResourceKey(PathJoin(output_dir, Listed(ref, attr)[1]))}

LedgerKey ==
    /\ call.op = "input"
    /\ call' = [op |-> "keyed", ref |-> call.ref, attr |-> call.attr,
                page |-> call.page, map |-> call.map,
                out |-> LedgerKeyFor(call.ref, call.attr)]
    /\ UNCHANGED run_vars

CallNext == Normalize \/ Rewrite \/ Locate \/ LedgerKey

CallSpec == CallInit /\ [][CallNext]_vars

(***************************************************************************)
(* Properties                                                              *)
(***************************************************************************)
\* the download calls of the batch in progress, as <<task, download>>
Downloads == {<<i, j>> \in (DOMAIN tasks) \X (1..MaxResources) : j \in DOMAIN tasks[i].dl}

\* the calls of fetch_content and download_file that hold a slot of the
\* semaphore: their GET is sent and they have not returned
InFlight ==
    Cardinality(Fetching(tasks))
    + Cardinality({d \in Downloads : tasks[d[1]].dl[d[2]].pc \in {"get", "stream"}})

Waiting ==
    {i \in DOMAIN tasks : tasks[i].pc = "wait"}
    \cup {d \in Downloads : tasks[d[1]].dl[d[2]].pc = "wait"}

\* C1: every page URL is fetched over the network at most once in a run,
\* also when its path occurs twice in one batch
C1_FetchedAtMostOnce == \A u \in DOMAIN fetches : fetches[u] <= 1

\* C2: while the GET of a page is in flight, the URL of the page is in the
\* visited set
C2_VisitedBeforeFetch ==
    \A i \in DOMAIN tasks : tasks[i].pc = "fetching" => tasks[i].url \in processed_urls

\* C3: for every resource canonical path at most one GET is streamed to its
\* end in a run, also when several tasks download it at the same time
C3_OneGetPerResource == \A r \in DOMAIN gets_ok : gets_ok[r] <= 1

\* a step enters a key in the ledger only as it completes the file of a
\* resource with that key, and a download that returns False enters none
C4Step ==
    /\ \A k \in processed_resources' \ processed_resources :
          \E r \in DOMAIN gets_ok' :
              /\ gets_ok'[r] = Count(gets_ok, r) + 1
              /\ resource_key[r] = k
              /\ resource_file[r] \in DOMAIN files'
              /\ files'[resource_file[r]] = ResourceFile("complete")
    /\ \A i \in DOMAIN tasks : \A j \in DOMAIN tasks[i].dl :
          (/\ i \in DOMAIN tasks'
           /\ j \in DOMAIN tasks'[i].dl
           /\ tasks[i].dl[j].pc # "done"
           /\ tasks'[i].dl[j].pc = "done"
           /\ ~tasks'[i].dl[j].ok) => processed_resources' = processed_resources

C5_ConcurrencyLimit ==
    /\ InFlight <= MAX_CONCURRENT_REQUESTS
    /\ semaphore = MAX_CONCURRENT_REQUESTS - InFlight

\* every slot is taken and a call is waiting for one
C5_Witness == InFlight = MAX_CONCURRENT_REQUESTS /\ Waiting # {}

\* C6: a call reports a transient failure only after MAX_RETRIES attempts
C6_RetriedUpToMax == gave_up_after \subseteq {MAX_RETRIES}

\* C7: a page whose fetch failed is visited, and no file, no entry of the
\* map and no frontier entry comes from it
C7_FailedPageLeavesNothing ==
    \A u \in failed_urls :
        /\ u \in processed_urls
        /\ u \notin saved
        /\ u \notin expanded

C9_RunTerminates ==
    <>(run_pc = "done" /\ page_queue = <<>> /\ tasks = <<>>)

\* the run has ended after it visited every page of the site
C9_Witness == run_pc = "done" /\ processed_urls = DOMAIN Site

\* the page links of a saved page, as <<path of the page, index of the href,
\* path of the target>>, whose target is saved too
SavedPageLinks ==
    {x \in (DOMAIN url_to_filepath) \X (1..(LinkCopies + 1)) \X (DOMAIN url_to_filepath) :
        /\ full_url[x[1]] \in saved
        /\ x[2] \in DOMAIN Content(full_url[x[1]]).hrefs
        /\ HrefClass(Content(full_url[x[1]]).hrefs[x[2]]) = "page"
        /\ convert_to_relative_path(Content(full_url[x[1]]).hrefs[x[2]],
                                    base_domain) = x[3]
        /\ full_url[x[3]] \in saved}

\* C10: at the end of the run, every page link of a saved page whose target
\* is saved is written as the path from the directory of the page to the
\* file of the target
C10_LinksRewritten ==
    (run_pc = "done") =>
        \A x \in SavedPageLinks :
            /\ page_file[x[1]] \in DOMAIN files
            /\ files[page_file[x[1]]].doc.hrefs[x[2]]
                   = relpath(url_to_filepath[x[3]], Parent(url_to_filepath[x[1]]))

\* C11: a reference with a non-navigable scheme, or a fragment, is the same
\* after the rewriter has passed over it, in src and in href, for every map
C11_NonNavigableUntouched ==
    (call.op = "rewritten" /\ call.ref \in NonNavigableRefs) => call.out = call.ref

\* the absolute URLs among the references to another host
AbsoluteCrossDomainRefs == {r \in CrossDomainRefs : UrlScheme(r) # <<>>}

\* C12: an absolute URL to another host is the same after the rewriter has
\* passed over it, for every map
C12_CrossDomainUntouched ==
    (call.op = "rewritten" /\ call.ref \in AbsoluteCrossDomainRefs) =>
        call.out = call.ref

\* C13: convert_to_relative_path returns None for every reference to
\* another host and for every fragment
C13_CrossDomainRejected ==
    (call.op = "normalized"
     /\ (call.ref \in CrossDomainRefs \/ StartsWith(call.ref, <<"#">>)))
        => call.out = None


\* C14: a non-navigable or fragment-only reference is never listed by the
\* page analysis, neither as a page link (queued on the frontier and
\* fetched) nor as a resource (requested by download_file), so the run
\* writes no file on its account.
C14_NonNavigableNeverRequested ==
    (call.op = "located" /\ call.ref \in NonNavigableRefs) => call.out = {}


\* C15: for every reference that the analysis lists as a resource, on a page
\* saved at any depth, the rewritten reference joined onto the directory of
\* the page's file is the file download_file wrote for the resource.
C15_ResourceRoundTrip ==
    (/\ call.op = "rewritten"
     /\ ReferenceKind(call.ref, call.attr) = "resource"
     /\ Listed(call.ref, call.attr) # <<>>)
        => NormParts(AbsPath(Parent(get_page_filepath(call.page, output_dir)))
                        \o PathParts(call.out), <<>>)
              \in WrittenFor(call.ref, call.attr)


\* C16: every file the run writes on account of a reference, page or
\* resource, lies below the output directory, also when the reference holds
\* '..' segments.
C16_WrittenUnderOutputRoot ==
    call.op = "located"
        => \A file \in call.out :
              /\ Len(file) > Len(AbsPath(output_dir))
              /\ Take(file, Len(AbsPath(output_dir))) = AbsPath(output_dir)


\* C18: a resource whose downloads have all failed is absent from the output
\* tree: a file exists at the destination of a resource only if a download
\* of it has succeeded or one is still streaming into it.
C18_FailedResourceAbsent ==
    \A resource \in Resources :
        resource_file[resource] \in DOMAIN files
            => \/ Count(gets_ok, resource) > 0
               \/ \E i \in DOMAIN tasks : \E j \in DOMAIN tasks[i].dl :
                      /\ tasks[i].dl[j].res = resource
                      /\ tasks[i].dl[j].pc = "stream"


\* C20: the location of a page is entered in url_to_filepath when the page
\* leaves the queue: whenever the fetch of a page is in flight or has
\* returned and the page is still being processed, the map holds its entry.
C20_LocationRecordedAtDequeue ==
    \A i \in DOMAIN tasks :
        tasks[i].pc \in {"fetching", "analyze", "resources", "adjust", "save"}
            => tasks[i].path \in DOMAIN url_to_filepath


\* a download of the page at url has returned False and the page still
\* awaits the other downloads or the return of gather
FailedDownload(url) ==
    \E i \in DOMAIN tasks :
        /\ tasks[i].url = url
        /\ tasks[i].pc = "resources"
        /\ \E j \in DOMAIN tasks[i].dl :
               tasks[i].dl[j].pc = "done" /\ ~tasks[i].dl[j].ok

\* the page at url has been rewritten and is about to be written
Persisting(url) ==
    \E i \in DOMAIN tasks : tasks[i].url = url /\ tasks[i].pc = "save"

\* a step in which a download_file call returns False
C17Step ==
    \A i \in DOMAIN tasks : \A j \in DOMAIN tasks[i].dl :
        (/\ tasks[i].dl[j].pc # "done"
         /\ i \in DOMAIN tasks'
         /\ j \in DOMAIN tasks'[i].dl
         /\ tasks'[i].dl[j].pc = "done"
         /\ ~tasks'[i].dl[j].ok)
            => /\ processed_resources' = processed_resources
               /\ tasks'[i].pc = "resources"
               /\ run_pc' = "batch"

\* C17: a failed resource download neither aborts the run nor keeps the page
\* from being rewritten and persisted: the step in which download_file
\* returns False adds nothing to the ledger and leaves the page task and the
\* run going; the page then reaches the writing of its rewritten content,
\* unless its rewriting raises an error of its own, and the run reaches its
\* end.
C17_DownloadFailureTolerated ==
    /\ [][C17Step]_vars
    /\ \A url \in DOMAIN Site :
           FailedDownload(url) ~> (Persisting(url) \/ url \in errored)
    /\ \A url \in DOMAIN Site : FailedDownload(url) ~> (run_pc = "done")

\* every download of the run has failed, the root page is saved and the run
\* is complete
C17_Witness ==
    /\ run_pc = "done"
    /\ report = "completed"
    /\ UrlRoot \in saved
    /\ gets_ok = EmptyDict
    /\ processed_resources = {}
    /\ gave_up_after # {}
    /\ errored = {}


\* a step in which the processing of a page raises: the error is caught in
\* that page's task
C19Step ==
    errored' # errored
        => /\ errored' \subseteq processed_urls'
           /\ run_pc' = "batch"
           /\ report' = report
           /\ page_queue' = page_queue
           /\ DOMAIN tasks' = DOMAIN tasks
           /\ \A i \in DOMAIN tasks :
                  \/ tasks'[i] = tasks[i]
                  \/ tasks[i].url \in errored' /\ tasks'[i].pc = "done"

\* C19: an error raised while a page is processed is caught in the task of
\* that page: in the step the URL is visited, the run and the other tasks of
\* the batch are left as they are; afterwards every task of the batch
\* returns, and the run works through the queue to its end.
C19_PageErrorContained ==
    /\ [][C19Step]_vars
    /\ \A i \in 1..MAX_CONCURRENT_REQUESTS :
           (errored # {} /\ i \in DOMAIN tasks /\ tasks[i].pc # "done")
               ~> (i \in DOMAIN tasks /\ tasks[i].pc = "done")
    /\ (errored # {}) ~> (run_pc = "done" /\ page_queue = <<>> /\ tasks = <<>>)

\* page a raised in one task of its batch, the other task of the batch saved
\* it, the page of the later batch is saved and the run is complete
C19_Witness ==
    /\ run_pc = "done"
    /\ report = "completed"
    /\ UrlA \in errored
    /\ UrlA \in saved
    /\ UrlB \in saved
    /\ errored \subseteq processed_urls


\* C21: for every page, while its content is being rewritten or its file
\* written, no resource download started for that page is still in flight:
\* every download_file call made for the page has returned.
C21_DownloadsEndBeforePersist ==
    \A i \in DOMAIN tasks :
        tasks[i].pc \in {"adjust", "save"}
            => \A k \in DOMAIN tasks :
                  tasks[k].url = tasks[i].url
                      => \A j \in DOMAIN tasks[k].dl : tasks[k].dl[j].pc = "done"


\* C22: the ledger key of a resource identifies its canonical path: two
\* references to the mirrored site that download_file looks up under the
\* same key are references to the same canonical path, so that a download
\* is skipped only for a path that was itself downloaded.
C22_KeyIdentifiesPath ==
    (call.op = "keyed" /\ call.out # {} /\ call.ref \in SameDomainRefs)
        => \A other \in SameDomainRefs :
              LedgerKeyFor(other, call.attr) = call.out
                  => Listed(other, call.attr) = Listed(call.ref, call.attr)


\* the page paths listed as page links by the analysis of the pages whose
\* links were queued, lines 62 and 68-70
Discovered == UNION {Range(Analyzed(url).page_links) : url \in expanded}

\* the file of the page at the path holds a page
SavedAt(link) ==
    /\ full_url[link] \in saved
    /\ page_file[link] \in DOMAIN files
    /\ files[page_file[link]].kind = "page"

\* C23: when the run has ended, every page path discovered as a page link
\* has its URL in the visited set, and every such page whose fetch succeeded
\* is saved at its get_page_filepath location, leaving aside the pages whose
\* processing raised an error or whose write raised OSError.
C23_DiscoveredPagesSaved ==
    run_pc = "done"
        => \A link \in Discovered :
              /\ full_url[link] \in processed_urls
              /\ (/\ full_url[link] \in fetched_ok
                  /\ full_url[link] \notin errored \cup unwritten)
                     => SavedAt(link)


\* C24: two page links with distinct fully-qualified URLs are saved to
\* distinct files: whenever the page of another reference to the mirrored
\* site is written to the file of this one, both name the same URL.
C24_DistinctPagesDistinctFiles ==
    (/\ call.op = "located"
     /\ call.ref \in SameDomainRefs
     /\ ReferenceKind(call.ref, call.attr) = "page"
     /\ call.out # {})
        => \A other \in SameDomainRefs :
              (/\ ReferenceKind(other, call.attr) = "page"
               /\ WrittenFor(other, call.attr) = call.out)
                  => urljoin(base_url, Listed(other, call.attr)[1])
                        = urljoin(base_url, Listed(call.ref, call.attr)[1])

=============================================================================
